---- MODULE Spec2Model ----
(***************************************************************************)
(* Model of src/services/onchain.js: the token-transfer fetch layer with   *)
(* two provider adapters (Etherscan, Covalent), the shared transport       *)
(* helper fetchJSON, the record normaliser normalizeTokenTx and the        *)
(* public entry point fetchTokenTransfers.                                 *)
(*                                                                         *)
(* JavaScript values are tagged records [t, s, n]: t is the type tag, s    *)
(* the payload of a string, n the payload of a number.                     *)
(***************************************************************************)
EXTENDS Integers, Sequences, FiniteSets, TLC

(* ---------------------------- bounds ----------------------------------- *)
MaxResultLen == 2      \* longest Etherscan result array
MaxItems == 2          \* longest Covalent data.items array
MaxTransfers == 2      \* longest Covalent item.transfers array
MaxClock == 1          \* Date.now() returns NowMs(0) .. NowMs(MaxClock)

(* ------------------------- JavaScript values --------------------------- *)
Undefined == [t |-> "undefined", s |-> "", n |-> 0]
Null == [t |-> "null", s |-> "", n |-> 0]
NaN == [t |-> "NaN", s |-> "", n |-> 0]
EmptyObject == [t |-> "object", s |-> "", n |-> 0]
ArrayTag == [t |-> "array", s |-> "", n |-> 0]
Str(x) == [t |-> "string", s |-> x, n |-> 0]
Num(k) == [t |-> "number", s |-> "", n |-> k]

\* ToBoolean: undefined, null, NaN, 0 and "" are falsy
Truthy(v) ==
  CASE v.t = "undefined" -> FALSE
    [] v.t = "null" -> FALSE
    [] v.t = "NaN" -> FALSE
    [] v.t = "number" -> v.n # 0
    [] v.t = "string" -> v.s # ""
    [] OTHER -> TRUE

\* a || b
Or(a, b) == IF Truthy(a) THEN a ELSE b

\* the decimal literals that occur in the modelled provider payloads
DecimalLiterals == ("0" :> 0) @@ ("3" :> 3) @@ ("6" :> 6) @@ ("18" :> 18)

\* Number(v)
Number(v) ==
  CASE v.t = "undefined" -> NaN
    [] v.t = "null" -> Num(0)
    [] v.t = "number" -> v
    [] v.t = "string" ->
         IF v.s = "" THEN Num(0)
         ELSE IF v.s \in DOMAIN DecimalLiterals THEN Num(DecimalLiterals[v.s])
         ELSE NaN
    [] OTHER -> NaN

\* a * k for a JS number a
Times(a, k) == IF a.t = "number" THEN Num(a.n * k) ELSE NaN

\* the ISO date strings that occur in the modelled provider payloads
IsoDates == ("1970-01-01T00:00:02Z" :> 2000) @@ ("1970-01-01T00:00:04Z" :> 4000)

\* Date.parse(v) for a string v
DateParse(v) ==
  IF v.t = "string" /\ v.s \in DOMAIN IsoDates THEN Num(IsoDates[v.s]) ELSE NaN

\* Date.now() at clock reading c (milliseconds)
NowMs(c) == 9000 + c

\* String(v) as used by template literals
ToStr(v) ==
  CASE v.t = "undefined" -> "undefined"
    [] v.t = "null" -> "null"
    [] v.t = "NaN" -> "NaN"
    [] v.t = "number" -> ToString(v.n)
    [] v.t = "string" -> v.s
    [] OTHER -> "[object Object]"

\* JSON.stringify(v): undefined stays undefined, strings are quoted
JSONStringify(v) ==
  CASE v.t = "undefined" -> Undefined
    [] v.t = "null" -> Str("null")
    [] v.t = "NaN" -> Str("null")
    [] v.t = "number" -> Str(ToString(v.n))
    [] v.t = "string" -> Str("\"" \o v.s \o "\"")
    [] OTHER -> Str("{}")

\* /No transactions/i.test(s) over the messages of the modelled payloads
NoTransactionsTest(s) ==
  s \in {"No transactions found", "NO TRANSACTIONS FOUND", "no transactions"}

(* --------------------------- normalizeTokenTx -------------------------- *)
RawFields ==
  {"hash", "transactionHash", "tx_hash", "timeStamp", "block_signed_at",
   "from", "from_address", "to", "to_address", "tokenSymbol", "token_symbol",
   "tokenName", "token_name", "contractAddress", "contract_address",
   "value", "tokenDecimal", "token_decimals"}

\* an object none of whose fields is set
EmptyTx == [f \in RawFields |-> Undefined]

\* the time value of the Date built on line 26; now = what Date.now() returns
TxTime(tx, now) ==
  IF Truthy(tx.timeStamp) THEN Times(Number(tx.timeStamp), 1000)
  ELSE IF Truthy(tx.block_signed_at) THEN DateParse(tx.block_signed_at)
  ELSE Num(now)

TxDecimals(tx) == Number(Or(Or(tx.tokenDecimal, tx.token_decimals), Num(18)))

normalizeTokenTx(tx, source, now) ==
  [source |-> source,
   hash |-> Or(Or(tx.hash, tx.transactionHash), tx.tx_hash),
   time |-> TxTime(tx, now),
   from |-> Or(tx.from, tx.from_address),
   to |-> Or(tx.to, tx.to_address),
   tokenSymbol |-> Or(tx.tokenSymbol, tx.token_symbol),
   tokenName |-> Or(tx.tokenName, tx.token_name),
   contractAddress |-> Or(tx.contractAddress, tx.contract_address),
   value |-> tx.value,
   decimals |-> TxDecimals(tx)]

\* normalizeTokenTx reads Date.now() for tx: neither time field is usable
ReadsClock(tx) == ~Truthy(tx.timeStamp) /\ ~Truthy(tx.block_signed_at)

\* how many of the first n records of xs make normalizeTokenTx read Date.now()
ClockReads(xs, n) == Cardinality({j \in 1..n : ReadsClock(xs[j])})

\* normalizeTokenTx applied to each record of xs in order; nows[k] is what the
\* k-th reading of Date.now() returns
MapNormalize(xs, source, nows) ==
  [i \in 1..Len(xs) |->
     normalizeTokenTx(xs[i], source,
                      IF ReadsClock(xs[i]) THEN NowMs(nows[ClockReads(xs, i)]) ELSE NowMs(0))]

(* ------------------------------ outcomes ------------------------------- *)
\* kind: "configuration" (missing credential), "transport" (fetchJSON failed),
\* "provider" (Etherscan payload rejected), "runtime" (exception of the engine)
Err(name, message, kind) == [name |-> name, message |-> message, kind |-> kind]
NoError == Err("", "", "")

Return(records) == [kind |-> "return", records |-> records, error |-> NoError]
Throw(e) == [kind |-> "throw", records |-> <<>>, error |-> e]
Pending == [kind |-> "pending", records |-> <<>>, error |-> NoError]

(* ------------------------------ fetchJSON ------------------------------ *)
\* A settled fetch(): settle = "reject" (network failure) or "resolve" with
\* res.ok, res.status, the body text and whether the body parses as JSON.
NetworkFailure ==
  [settle |-> "reject", ok |-> FALSE, status |-> 0, text |-> "", parses |-> FALSE]
HttpResponse(ok, status, text, parses) ==
  [settle |-> "resolve", ok |-> ok, status |-> status, text |-> text, parses |-> parses]

\* the exception fetchJSON raises for response r, NoError when it returns res.json()
fetchJSON(r) ==
  IF r.settle = "reject" THEN Err("TypeError", "Failed to fetch", "transport")
  ELSE IF ~r.ok
    THEN Err("Error", "HTTP " \o ToString(r.status) \o ": " \o r.text, "transport")
  ELSE IF ~r.parses
    THEN Err("SyntaxError", "Unexpected token in JSON", "transport")
  ELSE NoError

(* ------------------- fetchEtherscanTokenTransfers ---------------------- *)
\* Etherscan body: isNull for the JSON text null, else an object with the
\* fields status, message and result; result.t = "array" means arr holds it
EtherscanJson(status, message, result, arr) ==
  [isNull |-> FALSE, status |-> status, message |-> message, result |-> result, arr |-> arr]
EtherscanNullJson ==
  [isNull |-> TRUE, status |-> Undefined, message |-> Undefined, result |-> Undefined, arr |-> <<>>]

\* lines 44-56: the adapter's outcome once fetchJSON returned json
EtherscanParse(json, nows) ==
  LET result == IF json.isNull THEN Undefined ELSE json.result
      msg == IF json.isNull THEN Str("") ELSE Or(json.message, Str(""))
      detail == IF result.t = "string" THEN result ELSE JSONStringify(result)
  IN IF result.t = "array"
       THEN Return(MapNormalize(json.arr, "etherscan", nows))
     ELSE IF json.isNull
       THEN Throw(Err("TypeError", "Cannot read properties of null (reading 'status')", "runtime"))
     ELSE IF json.status = Str("1") \/ json.message = Str("OK")
       THEN IF Truthy(result)
              THEN Throw(Err("TypeError", "(result || []).map is not a function", "runtime"))
              ELSE Return(<<>>)
     ELSE IF NoTransactionsTest(ToStr(msg))
       THEN Return(<<>>)
     ELSE Throw(Err("Error",
                    "Etherscan error (V2): " \o ToStr(Or(msg, Str("ERROR"))) \o ": " \o ToStr(detail),
                    "provider"))

\* lines 42-56: the adapter's outcome for transport response r carrying json
EtherscanOutcome(r, json, nows) ==
  IF fetchJSON(r) # NoError THEN Throw(fetchJSON(r)) ELSE EtherscanParse(json, nows)

\* how many times the adapter reads Date.now() for this response
EtherscanClockReads(r, json) ==
  IF fetchJSON(r) = NoError /\ ~json.isNull /\ json.result.t = "array"
    THEN ClockReads(json.arr, Len(json.arr))
    ELSE 0

(* -------------------- fetchCovalentTokenTransfers ---------------------- *)
\* Covalent body: shape = "null" (JSON null), "nodata" (no data field),
\* "noitems" (data without items), "object" (data.items is a plain object)
\* or "items" (data.items is the array items)
CovalentJson(shape, items) == [shape |-> shape, items |-> items]

\* an item of data.items; hasTransfers = FALSE when the field is missing
CovalentItem(tx_hash, block_signed_at, hasTransfers, transfers) ==
  [tx_hash |-> tx_hash, block_signed_at |-> block_signed_at,
   hasTransfers |-> hasTransfers, transfers |-> transfers]

\* lines 71-81: the object handed to normalizeTokenTx for transfer t of item
CovalentTx(item, t) ==
  [EmptyTx EXCEPT !.tx_hash = item.tx_hash,
                  !.block_signed_at = item.block_signed_at,
                  !.from_address = t.from_address,
                  !.to_address = t.to_address,
                  !.token_symbol = t.contract_ticker_symbol,
                  !.token_name = t.contract_name,
                  !.contract_address = t.contract_address,
                  !.value = t.delta,
                  !.token_decimals = t.contract_decimals]

\* line 69: item.transfers || []
ItemTransfers(item) == IF item.hasTransfers THEN item.transfers ELSE <<>>

\* lines 68-83: the objects normalised, in item order then transfer order
RECURSIVE Flatten(_)
Flatten(items) ==
  IF items = <<>> THEN <<>>
  ELSE [i \in 1..Len(ItemTransfers(Head(items))) |->
          CovalentTx(Head(items), ItemTransfers(Head(items))[i])]
       \o Flatten(Tail(items))

\* line 65: (json?.data?.items) || []
CovalentItems(json) == IF json.shape = "items" THEN json.items ELSE <<>>

\* lines 64-84: the adapter's outcome for transport response r carrying json
CovalentOutcome(r, json, nows) ==
  IF fetchJSON(r) # NoError THEN Throw(fetchJSON(r))
  ELSE IF json.shape = "object"
    THEN Throw(Err("TypeError", "items is not iterable", "runtime"))
  ELSE Return(MapNormalize(Flatten(CovalentItems(json)), "covalent", nows))

\* how many times the adapter reads Date.now() for this response
CovalentClockReads(r, json) ==
  IF fetchJSON(r) = NoError
    THEN ClockReads(Flatten(CovalentItems(json)), Len(Flatten(CovalentItems(json))))
    ELSE 0

(* ------------------------------- inputs -------------------------------- *)
Addresses == {"0xA1", "0xB2"}

\* the options object; a field left out is Undefined (so is every field of
\* an options argument that is itself undefined)
Opts(page, offset, sort, chainId, pageSize) ==
  [page |-> page, offset |-> offset, sort |-> sort, chainId |-> chainId, pageSize |-> pageSize]
NoOptions == Opts(Undefined, Undefined, Undefined, Undefined, Undefined)
OptionSets == {NoOptions, Opts(Undefined, Num(50), Undefined, Num(5), Num(10))}

\* the credentials a process may start with
KeyValues(k) == {Undefined, Str(k)}

\* what the transport may answer, without the JSON body
FailedTransports ==
  {NetworkFailure,
   HttpResponse(FALSE, 500, "Internal Server Error", FALSE),
   HttpResponse(TRUE, 200, "<html>", FALSE)}
JsonTransport == HttpResponse(TRUE, 200, "", TRUE)

\* sequences over S of length at most n
SeqsUpTo(S, n) == UNION {[1..k -> S] : k \in 0..n}

\* raw Etherscan records: a complete one and one-field variations of it
BaseEtherscanTx ==
  [EmptyTx EXCEPT !.hash = Str("0xAA"), !.timeStamp = Str("3"),
                  !.from = Str("0x1"), !.to = Str("0x2"),
                  !.tokenSymbol = Str("USDT"), !.tokenName = Str("Tether"),
                  !.contractAddress = Str("0xC0"), !.value = Str("1000000"),
                  !.tokenDecimal = Str("6")]
RawEtherscanTxs ==
  {BaseEtherscanTx,
   [BaseEtherscanTx EXCEPT !.hash = Undefined, !.transactionHash = Str("0xBB")],
   [BaseEtherscanTx EXCEPT !.timeStamp = Undefined],
   [BaseEtherscanTx EXCEPT !.timeStamp = Str("abc")],
   [BaseEtherscanTx EXCEPT !.tokenDecimal = Undefined],
   [BaseEtherscanTx EXCEPT !.tokenDecimal = Str("0")],
   [BaseEtherscanTx EXCEPT !.tokenDecimal = Num(0)]}

Statuses == {Str("1"), Str("0")}
Messages == {Undefined, Str("OK"), Str("No transactions found"), Str("NOTOK")}

\* status and message of the bodies whose result is an array: the classic
\* pair, and neither (line 43: V2 may return no status and no message)
ArrayHeads == {<<Str("1"), Str("OK")>>, <<Undefined, Undefined>>}
ScalarResults == {Undefined, Null, Str(""), Str("Max rate limit reached"), EmptyObject}

EtherscanJsons ==
  {EtherscanNullJson}
  \cup {EtherscanJson(st, msg, res, <<>>) :
          st \in Statuses, msg \in Messages, res \in ScalarResults}
  \cup {EtherscanJson(h[1], h[2], ArrayTag, arr) :
          h \in ArrayHeads, arr \in SeqsUpTo(RawEtherscanTxs, MaxResultLen)}

\* raw Covalent transfer events
CovalentTransfer(from, to, delta, decimals) ==
  [from_address |-> from, to_address |-> to,
   contract_ticker_symbol |-> Str("USDC"), contract_name |-> Str("USD Coin"),
   contract_address |-> Str("0xC1"), delta |-> delta, contract_decimals |-> decimals]
RawTransfers ==
  <<CovalentTransfer(Str("0x1"), Str("0x2"), Str("100"), Num(6)),
    CovalentTransfer(Str("0x2"), Str("0x1"), Str("7"), Num(0))>>

\* a transfers array of k events, which alternate between the two above
TransferList(k) == [i \in 1..k |-> RawTransfers[((i - 1) % 2) + 1]]

\* transaction items: hash and block time of the parent transaction
ItemHeads ==
  {<<Str("0xAA"), Str("1970-01-01T00:00:02Z")>>,
   <<Str("0xBB"), Undefined>>,
   <<Str("0xCC"), Str("not-a-date")>>}
RawItems ==
  {CovalentItem(h[1], h[2], TRUE, TransferList(k)) : h \in ItemHeads, k \in 0..MaxTransfers}
  \cup {CovalentItem(Str("0xDD"), Str("1970-01-01T00:00:04Z"), FALSE, <<>>)}

CovalentJsons ==
  {CovalentJson("null", <<>>), CovalentJson("nodata", <<>>), CovalentJson("noitems", <<>>),
   CovalentJson("object", <<>>)}
  \cup {CovalentJson("items", items) : items \in SeqsUpTo(RawItems, MaxItems)}

\* what n successive readings of Date.now() may return after reading c: time
\* passes between the call, the response and the readings, never backwards
Nows(c, n) ==
  {s \in [1..n -> c..MaxClock] : \A i \in 1..(n - 1) : s[i] <= s[i + 1]}

(* -------------------------------- state -------------------------------- *)
VARIABLES
  etherscanKey,   \* line 8: process.env.REACT_APP_ETHERSCAN_KEY
  covalentKey,    \* line 9: process.env.REACT_APP_COVALENT_KEY
  entry,          \* the function the caller invoked, "idle" before the call
  args,           \* the address and options of that call
  pc,             \* where the call is suspended: "try" (line 91), "fallback"
                  \* (line 95), "only" (line 101), "direct", "idle", "done"
  running,        \* adapters invoked and not yet settled
  inflight,       \* network requests issued and not yet settled
  log,            \* what happened during the call, in order
  delivered,      \* the transport response each adapter received
  outcome,        \* what the call returned or threw
  clock           \* the latest reading of Date.now(), in ms after the first

vars == <<etherscanKey, covalentKey, entry, args, pc, running, inflight, log,
          delivered, outcome, clock>>

ETHERSCAN_API == "https://api.etherscan.io/v2/api"
COVALENT_BASE == "https://api.covalenthq.com/v1"

Adapters == {"etherscan", "covalent"}

\* the credential adapter a reads
Key(a) == IF a = "etherscan" THEN etherscanKey ELSE covalentKey

\* a destructuring default: d replaces an undefined field
Default(v, d) == IF v.t = "undefined" THEN d ELSE v

\* lines 41 and 62-63: the request adapter a sends
Request(a, address, o) ==
  IF a = "etherscan"
    THEN [provider |-> a,
          url |-> ETHERSCAN_API \o "?chainid=" \o ToStr(Default(o.chainId, Num(1)))
                  \o "&module=account&action=tokentx&address=" \o address
                  \o "&page=" \o ToStr(Default(o.page, Num(1)))
                  \o "&offset=" \o ToStr(Default(o.offset, Num(50)))
                  \o "&sort=" \o ToStr(Default(o.sort, Str("desc")))
                  \o "&apikey=" \o ToStr(etherscanKey),
          authorization |-> ""]
    ELSE [provider |-> a,
          url |-> COVALENT_BASE \o "/" \o ToStr(Default(o.chainId, Num(1)))
                  \o "/address/" \o address
                  \o "/transfers_v2/?page-size=" \o ToStr(Default(o.pageSize, Num(50))),
          authorization |-> "Bearer " \o ToStr(covalentKey)]

\* lines 39 and 61: the error of an adapter whose credential is missing
MissingKey(a) ==
  IF a = "etherscan"
    THEN Err("Error", "Missing REACT_APP_ETHERSCAN_KEY", "configuration")
    ELSE Err("Error", "Missing REACT_APP_COVALENT_KEY", "configuration")

(* ------------------------------ the call ------------------------------- *)
\* log entries; the fields an entry does not use hold "" or Pending
Event(ev, who, address, options, url, out) ==
  [ev |-> ev, who |-> who, address |-> address, options |-> options, url |-> url, out |-> out]
CallEvent(a, address, o) == Event("call", a, address, o, "", Pending)
RequestEvent(a, req) == Event("request", a, "", NoOptions, req.url, Pending)
SettleEvent(a, out) == Event("settle", a, "", NoOptions, "", out)

\* the part of the state a call works on
Current ==
  [pc |-> pc, running |-> running, inflight |-> inflight, log |-> log, outcome |-> outcome]

\* FirstAdapter with the two credentials tested in the other order
FirstAdapter_SecondaryFirst ==
  IF Truthy(etherscanKey) THEN "etherscan"
  ELSE IF Truthy(covalentKey) THEN "covalent"
  ELSE "none"

\* FirstAdapter without the final case of line 104
FirstAdapter_NoEmptyCase ==
  IF Truthy(covalentKey) THEN "covalent" ELSE "etherscan"

\* lines 89, 100, 104: the adapter fetchTokenTransfers calls first
FirstAdapter ==
  IF Truthy(covalentKey) THEN "covalent"
  ELSE IF Truthy(etherscanKey) THEN "etherscan"
  ELSE "none"

\* the await at which fetchTokenTransfers suspends on its first adapter
FirstLine(a) == IF a = "covalent" THEN "try" ELSE "only"

\* FallbackAdapter of a catch block that only rethrows
FallbackAdapter_Never(failed) == "none"

\* FallbackAdapter of a catch block that calls the failed adapter again
FallbackAdapter_Retry(failed) ==
  IF failed = "covalent" /\ Truthy(etherscanKey) THEN "covalent" ELSE "none"

\* lines 92-97: the adapter called after adapter failed threw inside the try
FallbackAdapter(failed) ==
  IF failed = "covalent" /\ Truthy(etherscanKey) THEN "etherscan" ELSE "none"

RECURSIVE Invoke(_, _, _, _, _), Settle(_, _, _, _, _)

\* Invoke with the request built and sent before the credential is tested
Invoke_RequestsBeforeKeyCheck(m, a, address, o, line) ==
  LET called == [m EXCEPT !.pc = line,
                          !.running = [@ EXCEPT ![a] = @ + 1],
                          !.log = Append(Append(@, CallEvent(a, address, o)),
                                         RequestEvent(a, Request(a, address, o))),
                          !.inflight = Append(@, Request(a, address, o))]
  IN IF ~Truthy(Key(a))
       THEN Settle([called EXCEPT !.inflight = m.inflight], a, Throw(MissingKey(a)), address, o)
       ELSE called

\* Adapter a is called at the await named line (lines 38-42 and 60-64): it
\* throws at once without its credential, else it issues its request.
Invoke(m, a, address, o, line) ==
  LET called == [m EXCEPT !.pc = line,
                          !.running = [@ EXCEPT ![a] = @ + 1],
                          !.log = Append(@, CallEvent(a, address, o))]
  IN IF ~Truthy(Key(a))
       THEN Settle(called, a, Throw(MissingKey(a)), address, o)
       ELSE [called EXCEPT !.inflight = Append(@, Request(a, address, o)),
                           !.log = Append(@, RequestEvent(a, Request(a, address, o)))]

\* Settle with the other adapter tried after a failure at line 101 as well
Settle_FallsBackAnywhere(m, a, out, address, o) ==
  LET settled == [m EXCEPT !.running = [@ EXCEPT ![a] = @ - 1],
                           !.log = Append(@, SettleEvent(a, out))]
      other == IF a = "covalent" THEN "etherscan" ELSE "covalent"
  IN IF m.pc = "try" /\ out.kind = "throw" /\ FallbackAdapter(a) # "none"
       THEN Invoke(settled, FallbackAdapter(a), address, o, "fallback")
     ELSE IF m.pc = "only" /\ out.kind = "throw"
       THEN Invoke(settled, other, address, o, "fallback")
     ELSE [settled EXCEPT !.pc = "done", !.outcome = out]

\* Adapter a settles with out; the caller resumes (lines 91-98, 101): a
\* failure inside the try goes to the fallback, anything else ends the call.
Settle(m, a, out, address, o) ==
  LET settled == [m EXCEPT !.running = [@ EXCEPT ![a] = @ - 1],
                           !.log = Append(@, SettleEvent(a, out))]
  IN IF m.pc = "try" /\ out.kind = "throw" /\ FallbackAdapter(a) # "none"
       THEN Invoke(settled, FallbackAdapter(a), address, o, "fallback")
       ELSE [settled EXCEPT !.pc = "done", !.outcome = out]

\* the state variables take the values of m
Becomes(m) ==
  /\ pc' = m.pc
  /\ running' = m.running
  /\ inflight' = m.inflight
  /\ log' = m.log
  /\ outcome' = m.outcome

NoArgs == [address |-> "", options |-> NoOptions]
NoResponse(json) == [r |-> NetworkFailure, json |-> json, seen |-> FALSE]
NoDelivered ==
  [etherscan |-> NoResponse(EtherscanNullJson), covalent |-> NoResponse(CovalentJson("null", <<>>))]

Init ==
  /\ etherscanKey \in KeyValues("ETHERSCAN-KEY")
  /\ covalentKey \in KeyValues("COVALENT-KEY")
  /\ entry = "idle"
  /\ args = NoArgs
  /\ pc = "idle"
  /\ running = [a \in Adapters |-> 0]
  /\ inflight = <<>>
  /\ log = <<>>
  /\ delivered = NoDelivered
  /\ outcome = Pending
  /\ clock = 0

\* lines 88-105 up to the first await
fetchTokenTransfers(address, options) ==
  /\ entry = "idle"
  /\ entry' = "fetchTokenTransfers"
  /\ args' = [address |-> address, options |-> options]
  /\ IF FirstAdapter = "none"
       THEN Becomes([Current EXCEPT !.pc = "done", !.outcome = Return(<<>>)])
       ELSE Becomes(Invoke(Current, FirstAdapter, address, options, FirstLine(FirstAdapter)))
  /\ UNCHANGED <<etherscanKey, covalentKey, delivered, clock>>

\* lines 38-42 up to the await, the adapter called on its own
fetchEtherscanTokenTransfers(address, options) ==
  /\ entry = "idle"
  /\ entry' = "fetchEtherscanTokenTransfers"
  /\ args' = [address |-> address, options |-> options]
  /\ Becomes(Invoke(Current, "etherscan", address, options, "direct"))
  /\ UNCHANGED <<etherscanKey, covalentKey, delivered, clock>>

\* lines 60-64 up to the await, the adapter called on its own
fetchCovalentTokenTransfers(address, options) ==
  /\ entry = "idle"
  /\ entry' = "fetchCovalentTokenTransfers"
  /\ args' = [address |-> address, options |-> options]
  /\ Becomes(Invoke(Current, "covalent", address, options, "direct"))
  /\ UNCHANGED <<etherscanKey, covalentKey, delivered, clock>>

\* s without its i-th element
RemoveAt(s, i) == [j \in 1..(Len(s) - 1) |-> IF j < i THEN s[j] ELSE s[j + 1]]

\* the latest reading after n readings of Date.now() that returned nows
ClockAfter(nows, n) == IF n = 0 THEN clock ELSE nows[n]

\* The transport settles the Etherscan request; lines 42-57 run, then the caller.
EtherscanSettles(i, r, json) ==
  /\ i \in 1..Len(inflight)
  /\ inflight[i].provider = "etherscan"
  /\ \E nows \in Nows(clock, EtherscanClockReads(r, json)) :
       /\ Becomes(Settle([Current EXCEPT !.inflight = RemoveAt(@, i)], "etherscan",
                         EtherscanOutcome(r, json, nows), args.address, args.options))
       /\ clock' = ClockAfter(nows, EtherscanClockReads(r, json))
  /\ delivered' = [delivered EXCEPT !.etherscan = [r |-> r, json |-> json, seen |-> TRUE]]
  /\ UNCHANGED <<etherscanKey, covalentKey, entry, args>>

\* The transport settles the Covalent request; lines 64-84 run, then the caller.
CovalentSettles(i, r, json) ==
  /\ i \in 1..Len(inflight)
  /\ inflight[i].provider = "covalent"
  /\ \E nows \in Nows(clock, CovalentClockReads(r, json)) :
       /\ Becomes(Settle([Current EXCEPT !.inflight = RemoveAt(@, i)], "covalent",
                         CovalentOutcome(r, json, nows), args.address, args.options))
       /\ clock' = ClockAfter(nows, CovalentClockReads(r, json))
  /\ delivered' = [delivered EXCEPT !.covalent = [r |-> r, json |-> json, seen |-> TRUE]]
  /\ UNCHANGED <<etherscanKey, covalentKey, entry, args>>

Next ==
  \/ \E address \in Addresses, options \in OptionSets : fetchTokenTransfers(address, options)
  \/ \E address \in Addresses, options \in OptionSets : fetchEtherscanTokenTransfers(address, options)
  \/ \E address \in Addresses, options \in OptionSets : fetchCovalentTokenTransfers(address, options)
  \/ \E i \in 1..Len(inflight), r \in FailedTransports : EtherscanSettles(i, r, EtherscanNullJson)
  \/ \E i \in 1..Len(inflight), json \in EtherscanJsons : EtherscanSettles(i, JsonTransport, json)
  \/ \E i \in 1..Len(inflight), r \in FailedTransports : CovalentSettles(i, r, CovalentJson("null", <<>>))
  \/ \E i \in 1..Len(inflight), json \in CovalentJsons : CovalentSettles(i, JsonTransport, json)

Spec == Init /\ [][Next]_vars

(* ------------------------- reading the log ----------------------------- *)
\* positions of the log entries of kind ev made by adapter a
At(ev, a) == {i \in 1..Len(log) : log[i].ev = ev /\ log[i].who = a}

\* positions of everything adapter a did
Activity(a) == {i \in 1..Len(log) : log[i].who = a}

\* adapter a has settled before position i
SettledBefore(a, i) == \E j \in At("settle", a) : j < i

Orchestrated == entry = "fetchTokenTransfers"
BothKeys == Truthy(etherscanKey) /\ Truthy(covalentKey)

(* ------------------------------- claims -------------------------------- *)

\* C1 as stated in the specification: whenever the Etherscan (secondary)
\* credential is configured,
\* fetchTokenTransfers attempts the Etherscan adapter first, and nothing of
\* the Covalent (primary) adapter happens before the Etherscan attempt settled.
C1_SecondaryFirst ==
  (Orchestrated /\ Truthy(etherscanKey)) =>
    /\ log # <<>>
    /\ log[1].ev = "call" /\ log[1].who = "etherscan"
    /\ \A i \in Activity("covalent") : SettledBefore("etherscan", i)

\* C1 amended: the Covalent (primary) adapter is attempted first whenever its
\* credential is configured, and nothing of the Etherscan adapter happens
\* before the Covalent attempt settled; the Etherscan adapter is attempted
\* first only when its credential is configured and the Covalent one is absent,
\* and then the Covalent adapter is not attempted at all.
C1_PrimaryFirst ==
  Orchestrated =>
    /\ Truthy(covalentKey) =>
         /\ log # <<>>
         /\ log[1].ev = "call" /\ log[1].who = "covalent"
         /\ \A i \in Activity("etherscan") : SettledBefore("covalent", i)
    /\ (~Truthy(covalentKey) /\ Truthy(etherscanKey)) =>
         /\ log # <<>>
         /\ log[1].ev = "call" /\ log[1].who = "etherscan"
         /\ Activity("covalent") = {}

\* C1 witness: both credentials, and the Etherscan adapter has sent its request
C1_Witness ==
  Orchestrated /\ BothKeys /\ At("request", "etherscan") # {} /\ At("settle", "covalent") # {}

\* C2 as stated: with both credentials, once the Etherscan adapter has failed
\* the Covalent adapter is then attempted with the same address and options
\* and the call ends with the outcome of that Covalent attempt.
C2_FallbackToPrimary ==
  (Orchestrated /\ BothKeys /\ pc = "done") =>
    \A i \in At("settle", "etherscan") :
      log[i].out.kind = "throw" =>
        \E j \in At("call", "covalent") :
          /\ j > i
          /\ log[j].address = args.address /\ log[j].options = args.options
          /\ \E k \in At("settle", "covalent") : k > j /\ outcome = log[k].out

\* C2 amended: with both credentials, once the Covalent adapter has failed
\* (whatever the failure) the Etherscan adapter is attempted next with the same
\* address and options, and the call ends with the outcome of that attempt.
C2_FallbackToSecondary ==
  (Orchestrated /\ BothKeys) =>
    \A i \in At("settle", "covalent") :
      log[i].out.kind = "throw" =>
        /\ Len(log) > i
        /\ log[i + 1] = CallEvent("etherscan", args.address, args.options)
        /\ pc = "done" =>
             \E k \in At("settle", "etherscan") : k > i + 1 /\ outcome = log[k].out

\* C2 witness: the fallback ran to its end after a Covalent failure
C2_Witness ==
  /\ Orchestrated /\ BothKeys /\ pc = "done"
  /\ \E i \in At("settle", "covalent") : log[i].out.kind = "throw"
  /\ outcome.kind = "return" /\ outcome.records # <<>>

\* C3: without any credential fetchTokenTransfers returns an empty list, calls
\* no adapter and issues no network request.
C3_NoKeysEmptyList ==
  (Orchestrated /\ ~Truthy(etherscanKey) /\ ~Truthy(covalentKey)) =>
    /\ pc = "done"
    /\ outcome = Return(<<>>)
    /\ log = <<>>
    /\ inflight = <<>>
    /\ \A a \in Adapters : running[a] = 0

\* C3 witness: fetchTokenTransfers was called without credentials
C3_Witness ==
  Orchestrated /\ ~Truthy(etherscanKey) /\ ~Truthy(covalentKey) /\ pc = "done"

\* C4: with only the Etherscan credential, a failure of the Etherscan adapter
\* is the failure of fetchTokenTransfers, unchanged, and the Covalent adapter
\* is never invoked.
C4_SecondaryFailurePropagates ==
  (Orchestrated /\ Truthy(etherscanKey) /\ ~Truthy(covalentKey)) =>
    /\ Activity("covalent") = {}
    /\ \A i \in At("settle", "etherscan") :
         log[i].out.kind = "throw" =>
           /\ pc = "done"
           /\ outcome.kind = "throw"
           /\ outcome.error = log[i].out.error
           /\ outcome.error =
                IF fetchJSON(delivered.etherscan.r) # NoError
                  THEN fetchJSON(delivered.etherscan.r)
                  ELSE EtherscanParse(delivered.etherscan.json, <<>>).error

\* C4 witness: the Etherscan adapter failed with a provider error
C4_Witness ==
  /\ Orchestrated /\ Truthy(etherscanKey) /\ ~Truthy(covalentKey)
  /\ outcome.kind = "throw" /\ outcome.error.kind = "provider"

\* what adapter a settled with (it has settled)
OutOf(a) == log[CHOOSE i \in At("settle", a) : TRUE].out

\* adapter a received a JSON body and returned a list
Returned(a) ==
  /\ delivered[a].seen
  /\ At("settle", a) # {}
  /\ OutOf(a).kind = "return"

\* C5: for a JSON response whose result is not an array the Etherscan adapter
\* ends with an empty list or with a provider error built from the message
\* and the stringified result, never with another failure.
C5_NonArrayResult ==
  LET d == delivered.etherscan
      message == IF d.json.message.t = "string" /\ d.json.message.s # ""
                   THEN d.json.message.s ELSE "ERROR"
      dump == CASE d.json.result.t = "string" -> d.json.result.s
                [] d.json.result.t = "null" -> "null"
                [] d.json.result.t = "undefined" -> "undefined"
                [] OTHER -> "{}"
  IN (/\ d.seen /\ d.r = JsonTransport /\ ~d.json.isNull /\ d.json.result.t # "array"
      /\ At("settle", "etherscan") # {}) =>
       \/ OutOf("etherscan") = Return(<<>>)
       \/ /\ OutOf("etherscan").kind = "throw"
          /\ OutOf("etherscan").error.kind = "provider"
          /\ OutOf("etherscan").error.message =
               "Etherscan error (V2): " \o message \o ": " \o dump

\* the decimal count a provider field v states, if it states one
Supplied(v) == v.t = "number" \/ (v.t = "string" /\ v.s \in {"0", "6"})
SuppliedCount(v) == IF v.t = "number" THEN v.n ELSE IF v.s = "0" THEN 0 ELSE 6

\* record rec has the decimals the provider field v asks for
DecimalsAsSupplied(v, rec) ==
  /\ rec.decimals.t = "number"
  /\ rec.decimals.n >= 0
  /\ rec.decimals.n = IF Supplied(v) THEN SuppliedCount(v) ELSE 18

\* the nested events of a Covalent item, and of a Covalent body
ItemEvents(item) == IF item.hasTransfers THEN item.transfers ELSE <<>>
ItemsOf(json) == IF json.shape = "items" THEN json.items ELSE <<>>

\* the number of events of the first n items
RECURSIVE EventsBefore(_, _)
EventsBefore(items, n) ==
  IF n = 0 THEN 0 ELSE EventsBefore(items, n - 1) + Len(ItemEvents(items[n]))

\* the positions <<i, k>> of the events: event k of item i
EventPositions(items) ==
  {p \in (1..Len(items)) \X (1..MaxTransfers + 1) : p[2] <= Len(ItemEvents(items[p[1]]))}

\* C6: the decimals of every normalised record are the decimal count the
\* provider supplied (0 included, as a number or a string), 18 when it
\* supplied none.
C6_DecimalsAsSupplied ==
  /\ (Returned("etherscan") /\ delivered.etherscan.json.result.t = "array") =>
       \A i \in 1..Len(OutOf("etherscan").records) :
         DecimalsAsSupplied(delivered.etherscan.json.arr[i].tokenDecimal,
                            OutOf("etherscan").records[i])
  /\ Returned("covalent") =>
       LET items == ItemsOf(delivered.covalent.json)
       IN \A p \in EventPositions(items) :
            /\ EventsBefore(items, p[1] - 1) + p[2] <= Len(OutOf("covalent").records)
            /\ DecimalsAsSupplied(ItemEvents(items[p[1]])[p[2]].contract_decimals,
                                  OutOf("covalent").records[EventsBefore(items, p[1] - 1) + p[2]])

\* a point in time between the first and the latest reading of the clock
IsCurrentTime(t) == t.t = "number" /\ NowMs(0) <= t.n /\ t.n <= NowMs(clock)

\* C7: the Covalent adapter returns one record per nested event, in item
\* order then event order, each with the hash of its item, and the records
\* of one item all have the same timestamp, block time or not.
C7_OneTimestampPerItem ==
  Returned("covalent") =>
    LET items == ItemsOf(delivered.covalent.json)
        recs == OutOf("covalent").records
    IN /\ Len(recs) = EventsBefore(items, Len(items))
       /\ \A p \in EventPositions(items) :
            LET first == EventsBefore(items, p[1] - 1) + 1
                rec == recs[EventsBefore(items, p[1] - 1) + p[2]]
            IN /\ rec.hash = items[p[1]].tx_hash
               /\ rec.from = ItemEvents(items[p[1]])[p[2]].from_address
               /\ rec.to = ItemEvents(items[p[1]])[p[2]].to_address
               /\ rec.value = ItemEvents(items[p[1]])[p[2]].delta
               /\ rec.time = recs[first].time

\* the credential of adapter a is configured
Configured(a) == (IF a = "etherscan" THEN etherscanKey ELSE covalentKey).t = "string"

\* the failure that names the credential adapter a misses
MissingCredential(a) ==
  Throw([name |-> "Error", kind |-> "configuration",
         message |-> IF a = "etherscan" THEN "Missing REACT_APP_ETHERSCAN_KEY"
                     ELSE "Missing REACT_APP_COVALENT_KEY"])

\* C8: an adapter called without its credential fails at once with the
\* configuration error naming that credential, and no request is ever sent
\* to a provider whose credential is not configured.
C8_NoRequestWithoutKey ==
  \A a \in Adapters :
    ~Configured(a) =>
      /\ At("request", a) = {}
      /\ \A i \in 1..Len(inflight) : inflight[i].provider # a
      /\ ~delivered[a].seen
      /\ \A i \in At("call", a) :
           /\ Len(log) > i
           /\ log[i + 1] = SettleEvent(a, MissingCredential(a))

\* C8 witness: the Covalent adapter was called without its credential
C8_Witness ==
  /\ entry = "fetchCovalentTokenTransfers"
  /\ ~Configured("covalent")
  /\ pc = "done"
  /\ outcome = MissingCredential("covalent")

\* the provider's time field of raw record tx is there but is not a time
UnparseableTime(tx) ==
  \/ tx.timeStamp.t = "string" /\ tx.timeStamp.s \notin {"", "0", "3", "6", "18"}
  \/ /\ ~Truthy(tx.timeStamp)
     /\ tx.block_signed_at.t = "string"
     /\ tx.block_signed_at.s \notin {"", "1970-01-01T00:00:02Z", "1970-01-01T00:00:04Z"}

\* record rec, made from raw record tx, has a valid timestamp
ValidTimestamp(tx, rec) ==
  /\ rec.time.t = "number"
  /\ UnparseableTime(tx) => IsCurrentTime(rec.time)

\* C9: every normalised record has a valid timestamp, the current time when
\* the provider's time field is present but cannot be parsed.
C9_TimestampValid ==
  /\ (Returned("etherscan") /\ delivered.etherscan.json.result.t = "array") =>
       \A i \in 1..Len(OutOf("etherscan").records) :
         ValidTimestamp(delivered.etherscan.json.arr[i], OutOf("etherscan").records[i])
  /\ Returned("covalent") =>
       LET items == ItemsOf(delivered.covalent.json)
       IN \A p \in EventPositions(items) :
            /\ EventsBefore(items, p[1] - 1) + p[2] <= Len(OutOf("covalent").records)
            /\ ValidTimestamp([EmptyTx EXCEPT !.block_signed_at = items[p[1]].block_signed_at],
                              OutOf("covalent").records[EventsBefore(items, p[1] - 1) + p[2]])

\* C10: within a call of fetchTokenTransfers at most one adapter call and one
\* request are in flight, the second adapter starts only after the first
\* failed, each adapter is called at most once and sends at most one request
\* (two requests at most in a call), and a call that waits for no request of
\* the transport has ended with a list or a failure.
C10_OneAtATime ==
  Orchestrated =>
    /\ running["etherscan"] + running["covalent"] <= 1
    /\ Len(inflight) <= 1
    /\ \A a \in Adapters :
         /\ Cardinality(At("call", a)) <= 1
         /\ Cardinality(At("request", a)) <= Cardinality(At("call", a))
         /\ \A i \in At("call", a) :
              i > 1 => /\ log[i - 1].ev = "settle"
                       /\ log[i - 1].who # a
                       /\ log[i - 1].out.kind = "throw"
         /\ \A i \in At("request", a) : log[i - 1].ev = "call" /\ log[i - 1].who = a
    /\ Cardinality(At("request", "etherscan")) + Cardinality(At("request", "covalent")) <= 2
    /\ inflight = <<>> => pc = "done" /\ outcome.kind \in {"return", "throw"}
    /\ inflight # <<>> => running[inflight[1].provider] = 1 /\ outcome = Pending

\* C10 witness: a call that used both adapters, one after the other, has ended
C10_Witness ==
  /\ Orchestrated /\ pc = "done"
  /\ At("request", "covalent") # {} /\ At("request", "etherscan") # {}
  /\ outcome.kind = "return"

====
